---- MODULE Spec2Model ----
(***************************************************************************)
(* Model of the snowflake crate (src/src/lib.rs): the Snowflake newtype,   *)
(* its raw conversions, timestamp_part(), random() and default().          *)
(*                                                                         *)
(* Unsigned integers are wider than TLC's integers, so a natural number is *)
(* represented by the set of the positions of its 1 bits ({} is 0, {0, 3}  *)
(* is 9).  u64 values are subsets of 0..63, u128 values subsets of 0..127. *)
(***************************************************************************)
EXTENDS Integers, Sequences, FiniteSets

VARIABLES prev, last

vars == <<prev, last>>

---------------------------------------------------------------------------
(* Arithmetic on bit sets. *)

Max(S) == CHOOSE x \in S : \A y \in S : y <= x

BitOf(a, i) == IF i \in a THEN 1 ELSE 0

Pow2(k) == {k}

\* a small TLC integer as a bit set
FromNat(n) == {i \in 0..30 : (n \div (2 ^ i)) % 2 = 1}

\* unsigned comparison: the highest bit in which a and b differ is set in b
Lt(a, b) == \E i \in b \ a : \A j \in a \ b : j < i

Le(a, b) == a = b \/ Lt(a, b)

RECURSIVE AddCarry(_, _, _, _, _)
AddCarry(a, b, i, c, top) ==
    IF i > top THEN {}
    ELSE LET s == BitOf(a, i) + BitOf(b, i) + c
         IN  (IF s % 2 = 1 THEN {i} ELSE {}) \cup AddCarry(a, b, i + 1, s \div 2, top)

\* a + b, by ripple carry
Add(a, b) ==
    IF a = {} THEN b ELSE IF b = {} THEN a
    ELSE AddCarry(a, b, 0, 0, Max(a \cup b) + 1)

RECURSIVE SubBorrow(_, _, _, _, _)
SubBorrow(a, b, i, br, top) ==
    IF i > top THEN {}
    ELSE LET d == BitOf(a, i) - BitOf(b, i) - br
         IN  (IF (d + 2) % 2 = 1 THEN {i} ELSE {})
                \cup SubBorrow(a, b, i + 1, IF d < 0 THEN 1 ELSE 0, top)

\* a - b for a >= b, by ripple borrow
Sub(a, b) == IF b = {} THEN a ELSE SubBorrow(a, b, 0, 0, Max(a \cup b))

\* a * 2^k and a mod 2^k
TimesPow2(a, k) == {i + k : i \in a}
ModPow2(a, k) == {i \in a : i < k}

RECURSIVE Dec(_)
\* the number written with the decimal digits ds
Dec(ds) ==
    IF ds = <<>> THEN {}
    ELSE LET hi == Dec(SubSeq(ds, 1, Len(ds) - 1))
         IN  Add(Add(TimesPow2(hi, 3), TimesPow2(hi, 1)), FromNat(ds[Len(ds)]))

\* the number written with the hexadecimal digits hs (hs[1] the most significant)
Hex(hs) ==
    {4 * (Len(hs) - kj[1]) + kj[2] :
        kj \in {x \in (1..Len(hs)) \X (0..3) : (hs[x[1]] \div (2 ^ x[2])) % 2 = 1}}

---------------------------------------------------------------------------
(* u64 operations used by the crate. *)

U64_BITS == 64

BitAnd(a, b) == a \cap b
BitOr(a, b) == a \cup b
\* a << n on u64: bits shifted past bit 63 are dropped
Shl(a, n) == {i + n : i \in a} \cap (0..(U64_BITS - 1))

---------------------------------------------------------------------------
(* std::time.  A Duration (secs, nanos) is kept as whole milliseconds `ms` *)
(* plus the remaining nanoseconds `ns` < NANOS_PER_MILLI.  A SystemTime is *)
(* its distance `d` from UNIX_EPOCH and the side it lies on.               *)

NANOS_PER_MILLI == 1000000

Duration(ms, ns) == [ms |-> ms, ns |-> ns]

from_millis(ms) == Duration(ms, 0)

as_millis(d) == d.ms

DurationLt(a, b) == Lt(a.ms, b.ms) \/ (a.ms = b.ms /\ a.ns < b.ns)

\* Duration::checked_sub: <<>> is None, <<d>> is Some(d)
checked_sub(a, b) ==
    IF DurationLt(a, b) THEN <<>>
    ELSE IF a.ns >= b.ns
         THEN <<Duration(Sub(a.ms, b.ms), a.ns - b.ns)>>
         ELSE <<Duration(Sub(Sub(a.ms, b.ms), FromNat(1)), a.ns + NANOS_PER_MILLI - b.ns)>>

SystemTime(before, d) == [before |-> before, d |-> d]

\* now.duration_since(SystemTime::UNIX_EPOCH): <<>> is Err, <<d>> is Ok(d)
duration_since_unix_epoch(now) ==
    IF now.before /\ now.d # Duration({}, 0) THEN <<>> ELSE <<now.d>>

---------------------------------------------------------------------------
(* The crate. *)

\* pub struct Snowflake(u64): field .0 is element 1 of a 1-tuple
Snowflake(value) == <<value>>

as_u64(self) == self[1]

\* variant: the conversion clears the two reserved bits
From_masked(value) == Snowflake(value \ {21, 63})

\* impl From<u64> for Snowflake
From(value) == Snowflake(value)

\* const EPOCH: Duration = Duration::from_millis(1_546_300_800_000)
EPOCH_MILLIS == Dec(<<1, 5, 4, 6, 3, 0, 0, 8, 0, 0, 0, 0, 0>>)
EPOCH == from_millis(EPOCH_MILLIS)

\* variant: 0x00FF_FFFF_FFFF, one digit short
TIMESTAMP_MASK_40bits == Hex(<<0, 0, 15, 15, 15, 15, 15, 15, 15, 15, 15, 15>>)

\* 0x01FF_FFFF_FFFF
TIMESTAMP_MASK == Hex(<<0, 1, 15, 15, 15, 15, 15, 15, 15, 15, 15, 15>>)

\* variant: the field one bit too low
TIMESTAMP_SHIFT_21 == 22 - 1

TIMESTAMP_SHIFT == 22

\* variant: 0x003F_FFFF, a 22-bit range
RANDOM_MAX_22bits == Hex(<<0, 0, 3, 15, 15, 15, 15, 15>>)

\* 0x001F_FFFF
RANDOM_MAX == Hex(<<0, 0, 1, 15, 15, 15, 15, 15>>)

---------------------------------------------------------------------------
(* Inputs: clock readings, random draws and raw integers. *)

Radius == 1

\* the numbers within Radius of c (for c >= Radius)
Around(c) ==
    {Add(c, FromNat(k)) : k \in 0..Radius} \cup {Sub(c, FromNat(k)) : k \in 0..Radius}

\* elapsed milliseconds at which the behaviour changes: the custom epoch,
\* the top bit of the 41-bit field, the end of the field, the end of u64
ElapsedBoundaries == {{}, Pow2(40), Pow2(41), Pow2(U64_BITS)}

MillisSamples ==
    {FromNat(k) : k \in 0..Radius}
        \cup UNION {Around(Add(EPOCH_MILLIS, b)) : b \in ElapsedBoundaries}

SubMilli == NANOS_PER_MILLI \div 2

ClockSamples ==
    {SystemTime(FALSE, Duration(ms, 0)) : ms \in MillisSamples}
        \cup {SystemTime(FALSE, Duration(ms, SubMilli)) :
                 ms \in {Sub(EPOCH_MILLIS, FromNat(1)), EPOCH_MILLIS}}
        \cup {SystemTime(TRUE, Duration(FromNat(1), 0)),
              SystemTime(TRUE, Duration({}, SubMilli))}

DrawCandidates == {FromNat(k) : k \in 0..Radius} \cup Around(Pow2(21)) \cup Around(Pow2(22))

\* rand::rng().random_range(lo..=hi): any value of the inclusive range
random_range(lo, hi) == {r \in DrawCandidates : Le(lo, r) /\ Le(r, hi)}

RawSamples ==
    {{}, 0..(U64_BITS - 1), {63}, {21}, {21, 63}, (22..62) \cup (0..20)}

---------------------------------------------------------------------------
(* timestamp_part(), random() and default(). *)

\* the result of a call: a panic message and nothing returned, or no panic
\* and the returned value; `reads` counts the clock reads, `draws` the
\* random draws the call made
Panic(msg, reads) == [panic |-> msg, ret |-> <<>>, reads |-> reads, draws |-> 0]
Return(v, reads) == [panic |-> "", ret |-> <<v>>, reads |-> reads, draws |-> 0]

\* variant: timestamp.saturating_sub(EPOCH)
sub_epoch_saturating(timestamp) ==
    IF DurationLt(timestamp, EPOCH) THEN <<Duration({}, 0)>> ELSE checked_sub(timestamp, EPOCH)

\* timestamp - EPOCH: Duration's Sub panics where checked_sub gives None
sub_epoch(timestamp) == checked_sub(timestamp, EPOCH)

\* variant: millis as u64, a cast that wraps
cast_u128(millis) == <<millis \cap (0..(U64_BITS - 1))>>

\* u64::try_from(millis: u128): <<>> is Err, <<v>> is Ok(v)
try_from_u128(millis) ==
    IF millis \subseteq 0..(U64_BITS - 1) THEN <<millis>> ELSE <<>>

\* variant: (timestamp << 22) & 0x01FF_FFFF_FFFF
timestamp_field_shift_first(timestamp) ==
    BitAnd(Shl(timestamp, TIMESTAMP_SHIFT), TIMESTAMP_MASK)

\* variant: timestamp << 22, the mask forgotten
timestamp_field_unmasked(timestamp) == Shl(timestamp, TIMESTAMP_SHIFT)

\* (timestamp & 0x01FF_FFFF_FFFF) << 22
timestamp_field(timestamp) == Shl(BitAnd(timestamp, TIMESTAMP_MASK), TIMESTAMP_SHIFT)

\* fn timestamp_part() -> u64, with SystemTime::now() = now
timestamp_part(now) ==
    LET since == duration_since_unix_epoch(now)
    IN  IF since = <<>> THEN Panic("epoch should be before now", 1)
        ELSE LET diff == sub_epoch(since[1])
             IN  IF diff = <<>> THEN Panic("overflow when subtracting durations", 1)
                 ELSE LET timestamp == try_from_u128(as_millis(diff[1]))
                      IN  IF timestamp = <<>> THEN Panic("timestamp overflow", 1)
                          ELSE Return(timestamp_field(timestamp[1]), 1)

\* timestamp_part tabulated over the clock readings of the model
timestamp_part_at == [now \in ClockSamples |-> timestamp_part(now)]

\* variant: timestamp_part() & random_part
random_and(now, random_part) ==
    LET ts == timestamp_part_at[now]
    IN  IF ts.panic # "" THEN [ts EXCEPT !.draws = 1]
        ELSE [Return(Snowflake(BitAnd(ts.ret[1], random_part)), ts.reads) EXCEPT !.draws = 1]

\* pub fn random() -> Self, with the draw random_part made first and
\* SystemTime::now() = now
random(now, random_part) ==
    LET ts == timestamp_part_at[now]
    IN  IF ts.panic # "" THEN [ts EXCEPT !.draws = 1]
        ELSE [Return(Snowflake(BitOr(ts.ret[1], random_part)), ts.reads) EXCEPT !.draws = 1]

\* variant: #[derive(Default)], the zero identifier
default_derived(now, random_part) == Return(Snowflake({}), 0)

\* impl Default for Snowflake: fn default() -> Self { Self::random() }
default(now, random_part) == random(now, random_part)

---------------------------------------------------------------------------
(* State: the last call made on the crate and, under SpecTwoCalls, the one *)
(* before it, each with its inputs and its result.  An absent input or     *)
(* result is <<>>, a present one <<x>>.                                    *)

Call(op, now, draw, arg, res) ==
    [op |-> op, now |-> now, draw |-> draw, arg |-> arg, res |-> res]

NoCall == Call("none", <<>>, <<>>, <<>>, Panic("", 0))

Init == prev = NoCall /\ last = NoCall

CallTimestampPart ==
    \E now \in ClockSamples :
        last' = Call("timestamp_part", <<now>>, <<>>, <<>>, timestamp_part(now))

CallRandom ==
    \E now \in ClockSamples, random_part \in random_range({}, RANDOM_MAX) :
        last' = Call("random", <<now>>, <<random_part>>, <<>>, random(now, random_part))

CallDefault ==
    \E now \in ClockSamples, random_part \in random_range({}, RANDOM_MAX) :
        last' = Call("default", <<now>>, <<random_part>>, <<>>, default(now, random_part))

CallFrom ==
    \E value \in RawSamples :
        last' = Call("from", <<>>, <<>>, <<value>>, Return(From(value), 0))

\* one call at a time, each observed on its own
Next ==
    \/ CallTimestampPart /\ UNCHANGED prev
    \/ CallRandom /\ UNCHANGED prev
    \/ CallDefault /\ UNCHANGED prev
    \/ CallFrom /\ UNCHANGED prev

Spec == Init /\ [][Next]_vars

\* random() called again and again, the call before the last one kept
NextTwoCalls == CallRandom /\ prev' = last

SpecTwoCalls == Init /\ [][NextTwoCalls]_vars

---------------------------------------------------------------------------
(* Vocabulary of the properties. *)

BeforeUnixEpoch(t) == t.before /\ t.d # Duration({}, 0)

\* t is strictly before the custom epoch
BeforeEpoch(t) == BeforeUnixEpoch(t) \/ Lt(t.d.ms, EPOCH_MILLIS)

\* t is strictly after the custom epoch
AfterEpoch(t) == ~BeforeEpoch(t) /\ (t.d.ms # EPOCH_MILLIS \/ t.d.ns > 0)

\* whole milliseconds from the custom epoch to t, for t not before it
ElapsedMillis(t) == Sub(t.d.ms, EPOCH_MILLIS)

FitsU64(n) == Lt(n, Pow2(64))
Fits41(n) == Lt(n, Pow2(41))

\* call c is a random() that returned an identifier
Generated(c) == c.op = "random" /\ c.res.panic = ""

\* the raw value of the identifier call c returned
Raw(c) == as_u64(c.res.ret[1])

\* raw & (((1 << 41) - 1) << 22)
TimestampOf(raw) == raw \cap (22..62)

EpochOrderingErrors ==
    {"epoch should be before now", "overflow when subtracting durations"}

ReadsClock(c) == c.op \in {"timestamp_part", "random", "default"}

---------------------------------------------------------------------------
(* Properties. *)

\* C1: every identifier random() returns has bit 63 and bit 21 clear,
\* whatever the clock reading and the draw.
C1_ReservedBitsZero ==
    Generated(last) => 63 \notin Raw(last) /\ 21 \notin Raw(last)

C1_Witness ==
    Generated(last) /\ last.draw[1] = 0..20 /\ Raw(last) = 0..62 \ {21}

\* C2: From(v).as_u64() = v for every 64-bit v, and the conversion never
\* fails.
C2_RoundTrip ==
    last.op = "from" =>
        last.res.panic = "" /\ as_u64(last.res.ret[1]) = last.arg[1]

C2_Witness ==
    last.op = "from" /\ last.arg[1] = 0..63 /\ as_u64(last.res.ret[1]) = 0..63

\* C3 as stated: an identifier generated at a clock reading after the
\* custom epoch has a non-zero timestamp field.
C3_NonZeroAfterEpoch ==
    (Generated(last) /\ AfterEpoch(last.now[1])) => TimestampOf(Raw(last)) # {}

\* C3 amended: an identifier generated when the whole milliseconds e
\* elapsed since the custom epoch are not a multiple of 2^41 (in particular
\* when 1 <= e < 2^41) has a non-zero timestamp field.
C3_NonZeroUnlessMultiple ==
    (Generated(last) /\ ModPow2(ElapsedMillis(last.now[1]), 41) # {})
        => TimestampOf(Raw(last)) # {}

C3_Witness ==
    /\ Generated(last)
    /\ ~Fits41(ElapsedMillis(last.now[1]))
    /\ ModPow2(ElapsedMillis(last.now[1]), 41) # {}
    /\ TimestampOf(Raw(last)) # {}

\* two successive random() calls both returned an identifier and the clock
\* did not go backwards between them
TwoGenerated == Generated(prev) /\ Generated(last)
ClockNotBackwards == ~DurationLt(last.now[1].d, prev.now[1].d)

\* C4 as stated: under a clock that does not go backwards, the timestamp
\* field of the second identifier is >= that of the first.
C4_FieldMonotone ==
    (TwoGenerated /\ ClockNotBackwards)
        => Le(TimestampOf(Raw(prev)), TimestampOf(Raw(last)))

\* C4 amended: the same, provided both readings are less than 2^41
\* milliseconds after the custom epoch.
C4_FieldMonotoneBelowWrap ==
    (/\ TwoGenerated /\ ClockNotBackwards
     /\ Fits41(ElapsedMillis(prev.now[1])) /\ Fits41(ElapsedMillis(last.now[1])))
        => Le(TimestampOf(Raw(prev)), TimestampOf(Raw(last)))

C4_Witness ==
    /\ TwoGenerated
    /\ Lt(ElapsedMillis(prev.now[1]), ElapsedMillis(last.now[1]))
    /\ Fits41(ElapsedMillis(last.now[1]))
    /\ Lt(TimestampOf(Raw(prev)), TimestampOf(Raw(last)))

\* C5: a call that reads a clock strictly before the custom epoch panics
\* with an epoch-ordering error and returns nothing; a call that reads a
\* clock at or after it does not panic so.
C5_EpochOrdering ==
    ReadsClock(last) =>
        IF BeforeEpoch(last.now[1])
        THEN last.res.panic \in EpochOrderingErrors /\ last.res.ret = <<>>
        ELSE last.res.panic \notin EpochOrderingErrors

C5_Witness ==
    /\ last.op = "random"
    /\ BeforeEpoch(last.now[1]) /\ ~BeforeUnixEpoch(last.now[1])
    /\ last.res.panic = "overflow when subtracting durations"
    /\ last.res.ret = <<>>

\* C6: timestamp_part() panics with "timestamp overflow" exactly when the
\* elapsed milliseconds do not fit in 64 bits; an elapsed value of 2^41 or
\* more that fits is no error and is truncated to its low 41 bits.
C6_OverflowExactly ==
    last.op = "timestamp_part" =>
        /\ last.res.panic = "timestamp overflow"
              <=> (~BeforeEpoch(last.now[1]) /\ ~FitsU64(ElapsedMillis(last.now[1])))
        /\ (/\ ~BeforeEpoch(last.now[1])
            /\ FitsU64(ElapsedMillis(last.now[1]))
            /\ ~Fits41(ElapsedMillis(last.now[1])))
              => /\ last.res.panic = ""
                 /\ last.res.ret[1] \subseteq 22..62
                 /\ {i - 22 : i \in last.res.ret[1]}
                        = ElapsedMillis(last.now[1]) \cap (0..40)

C6_Witness ==
    /\ last.op = "timestamp_part"
    /\ last.res.panic = "timestamp overflow"
    /\ ElapsedMillis(last.now[1]) = Pow2(64)

\* C7: default() with a clock reading and a draw gives what random() gives
\* with them, the panic included, and makes one draw and one clock read.
C7_DefaultIsRandom ==
    last.op = "default" =>
        /\ last.res = random(last.now[1], last.draw[1])
        /\ last.res.draws = 1 /\ last.res.reads = 1

C7_Witness ==
    /\ last.op = "default" /\ last.res.panic = ""
    /\ last.draw[1] = {0} /\ Raw(last) = {0} \cup (22..62)

\* C8: for elapsed milliseconds e >= 0 that fit in 64 bits,
\* timestamp_part() returns (e mod 2^41) * 2^22, with bit 63 and bits 0-21
\* zero.
C8_TimestampPartValue ==
    (/\ last.op = "timestamp_part"
     /\ ~BeforeEpoch(last.now[1])
     /\ FitsU64(ElapsedMillis(last.now[1])))
        => /\ last.res.panic = ""
           /\ last.res.ret = <<TimesPow2(ModPow2(ElapsedMillis(last.now[1]), 41), 22)>>
           /\ last.res.ret[1] \cap ({63} \cup (0..21)) = {}

C8_Witness ==
    /\ last.op = "timestamp_part" /\ last.res.panic = ""
    /\ ElapsedMillis(last.now[1]) = Add(Pow2(41), Pow2(0))
    /\ last.res.ret = <<Pow2(22)>>

\* C9: in random() the draw r is at most 0x1FFFFF and the timestamp field
\* t has no bit below bit 22, so t | r = t + r, bits 0-20 of the result
\* are r and bits 22-62 are t.
C9_FieldsDisjoint ==
    Generated(last) =>
        LET r == last.draw[1]
            t == timestamp_part(last.now[1]).ret[1]
        IN  /\ Lt(r, Pow2(21))
            /\ t \cap (0..21) = {}
            /\ Raw(last) = Add(t, r)
            /\ Raw(last) \cap (0..20) = r
            /\ Raw(last) \cap (22..62) = t

C9_Witness ==
    /\ Generated(last)
    /\ last.draw[1] = 0..20
    /\ timestamp_part(last.now[1]).ret[1] = 22..62
    /\ Raw(last) = Add(22..62, 0..20)

\* C10: of two identifiers generated at elapsed milliseconds e1 < e2, both
\* below 2^41, the first is the smaller unsigned integer whatever the
\* draws; two identifiers generated below 2^41 are equal only with the
\* same millisecond and the same draw.
C10_SortsByMillisecond ==
    (/\ TwoGenerated
     /\ Fits41(ElapsedMillis(prev.now[1])) /\ Fits41(ElapsedMillis(last.now[1])))
        => /\ Lt(ElapsedMillis(prev.now[1]), ElapsedMillis(last.now[1]))
                => Lt(Raw(prev), Raw(last))
           /\ Lt(ElapsedMillis(last.now[1]), ElapsedMillis(prev.now[1]))
                => Lt(Raw(last), Raw(prev))
           /\ Raw(prev) = Raw(last)
                => /\ ElapsedMillis(prev.now[1]) = ElapsedMillis(last.now[1])
                   /\ prev.draw = last.draw

C10_Witness ==
    /\ TwoGenerated
    /\ Fits41(ElapsedMillis(last.now[1]))
    /\ Lt(ElapsedMillis(prev.now[1]), ElapsedMillis(last.now[1]))
    /\ prev.draw[1] = 0..20 /\ last.draw[1] = {}
    /\ Lt(Raw(prev), Raw(last))

====
